---- MODULE Spec2Model ----
(***************************************************************************)
(* Model of the socket conformance worker (src/src/lib.rs).                *)
(*                                                                         *)
(* main() owns an ordered list of five lazily-evaluated probe futures.     *)
(* For each one it runs tokio::select! over the probe and timeout(5_000),  *)
(* formats one status line from whichever branch is ready first, and       *)
(* finally answers with the joined lines and status 200 or 500.            *)
(*                                                                         *)
(* The environment (peer, socket runtime, JS timers) is nondeterministic:  *)
(* connect succeeds or fails synchronously, every awaited write/read may   *)
(* complete with Ok, complete with an error, or never complete, and a      *)
(* timer that has been set may fire at any later moment.                   *)
(***************************************************************************)
EXTENDS Integers, Sequences, FiniteSets, TLC

VARIABLES
    pc,            \* position of main: "loop", "select", "done"
    idx,           \* 1-based position of the for loop in tests
    failed,        \* let mut failed
    test_results,  \* let mut test_results
    console,       \* lines written by console_log!
    fut,           \* per probe: where the probe future is suspended
    socket,        \* per probe: the Socket owned by the probe future
    net,           \* per probe: the write/read the runtime has in flight
    timer,         \* per probe: the setTimeout made by that probe's race
    branch,        \* per probe: the select! branch that ran ("fut", "timeout")
    res,           \* per probe: the Result the probe future returned, if it did
    foo,           \* per probe: what socket.write(b"FOO").await returned
    response       \* what main returned

vars == <<pc, idx, failed, test_results, console, fut, socket, net, timer,
          branch, res, foo, response>>

-----------------------------------------------------------------------------
(* Bounds of the model *)

\* number of distinct error messages the runtime may attach to a failed
\* secondary write
MaxMessages == 3

-----------------------------------------------------------------------------
(* Error values *)

\* the messages a JS error of the socket runtime may carry; the first two
\* are the phrases the half-open probes compare against, the others differ
\* from them in a single character or by a suffix
Messages ==
    << "Error: Network connection lost.",
       "TypeError: This WritableStream has been closed.",
       "Error: Network connection lost",
       "TypeError: This WritableStream has been closed. (write)" >>

\* Option<&dyn Error> returned by std::io::Error::get_ref
NoInner == [some |-> FALSE, display |-> "", debug |-> ""]

\* an inner error: to_string() gives display, {:?} gives debug
JsError(msg) ==
    [some |-> TRUE, display |-> msg, debug |-> "JsError(\"" \o msg \o "\")"]

\* std::io::Error; {:?} gives debug, get_ref() gives inner
IoCustom(msg) ==
    [debug |-> "Custom { kind: Other, error: JsError(\"" \o msg \o "\") }",
     inner |-> JsError(msg)]

IoSimple == [debug |-> "Kind(ConnectionReset)", inner |-> NoInner]

NoError == [debug |-> "", inner |-> NoInner]

\* errors connect() may return (worker::Error, formatted with {:?})
ConnectErrors == { "RustError(\"connect: proxy request failed\")" }

\* errors the request write and read_to_end may fail with
ScriptErrors == { IoSimple }

\* errors the write after end-of-stream may fail with
AfterEofErrors ==
    { IoCustom(Messages[i]) : i \in 1..MaxMessages } \cup { IoSimple }

-----------------------------------------------------------------------------
(* Values of Result<(), String> and of an awaited I/O *)

Ok == [ok |-> TRUE, error |-> ""]
Err(s) == [ok |-> FALSE, error |-> s]
NoResult == [ok |-> FALSE, error |-> "<not returned>"]

\* an operation handed to the socket runtime: op is "write", "read" or "foo"
\* (the write after end-of-stream), st is "pending", "ok" or "err"
Idle == [op |-> "", st |-> "idle", e |-> NoError]
InFlight(op) == [op |-> op, st |-> "pending", e |-> NoError]
IoOk(op) == [op |-> op, st |-> "ok", e |-> NoError]
IoErr(op, e) == [op |-> op, st |-> "err", e |-> e]
Abandoned == [op |-> "", st |-> "abandoned", e |-> NoError]
Lost == [op |-> "", st |-> "lost", e |-> NoError]
NotWritten == [op |-> "foo", st |-> "idle", e |-> NoError]

\* eof: read_to_end has returned Ok on this socket
NoSocket == [state |-> "none", secure_transport |-> "", port |-> 0,
             allow_half_open |-> "", tls |-> FALSE, eof |-> FALSE]

TimeoutMs == 5000

NoTimer == [state |-> "unset", ms |-> 0]

-----------------------------------------------------------------------------
(* The five probes *)

test_no_ssl ==
    [secure_transport |-> "Off", port |-> 80, allow_half_open |-> "default",
     start_tls |-> FALSE, after_eof |-> "none"]

test_ssl ==
    [secure_transport |-> "On", port |-> 443, allow_half_open |-> "default",
     start_tls |-> FALSE, after_eof |-> "none"]

test_start_tls ==
    [secure_transport |-> "StartTls", port |-> 443,
     allow_half_open |-> "default", start_tls |-> TRUE, after_eof |-> "none"]

test_allow_half_open ==
    [secure_transport |-> "default", port |-> 443, allow_half_open |-> "true",
     start_tls |-> FALSE, after_eof |-> "allow"]

test_disallow_half_open ==
    [secure_transport |-> "default", port |-> 443, allow_half_open |-> "false",
     start_tls |-> FALSE, after_eof |-> "disallow"]

\* let tests: Vec<(&str, Test)>
tests ==
    << [name |-> "NO_SSL", fut |-> test_no_ssl],
       [name |-> "SSL", fut |-> test_ssl],
       [name |-> "StartTls", fut |-> test_start_tls],
       [name |-> "ALLOW_HALF_OPEN", fut |-> test_allow_half_open],
       [name |-> "DISALLOW_HALF_OPEN", fut |-> test_disallow_half_open] >>

Probes == 1..Len(tests)

\* Socket::builder()...connect(), followed by start_tls() where the probe
\* calls it
Connect(cfg) ==
    [state |-> "open", secure_transport |-> cfg.secure_transport,
     port |-> cfg.port, allow_half_open |-> cfg.allow_half_open,
     tls |-> cfg.start_tls \/ cfg.secure_transport = "On", eof |-> FALSE]

\* mutant: an error without inner error passes
AllowAfterEof_noInnerPasses(w) ==
    IF w.st = "ok" THEN Ok
    ELSE IF ~w.e.inner.some THEN Ok
    ELSE IF w.e.inner.display = "Error: Network connection lost." THEN Ok
    ELSE Err("Unexpected error: " \o w.e.inner.debug)

\* mutant: every error of the write is taken as the expected one
AllowAfterEof_anyError(w) ==
    IF w.st = "ok" THEN Ok
    ELSE IF ~w.e.inner.some THEN Err("std::io::Error no inner")
    ELSE Ok

\* match socket.write(b"FOO").await of test_allow_half_open
AllowAfterEof(w) ==
    IF w.st = "ok" THEN Ok
    ELSE IF ~w.e.inner.some THEN Err("std::io::Error no inner")
    ELSE IF w.e.inner.display = "Error: Network connection lost." THEN Ok
    ELSE Err("Unexpected error: " \o w.e.inner.debug)

\* mutant: every error of the write is taken as the expected one
DisallowAfterEof_anyError(w) ==
    IF w.st = "ok" THEN Err("Write after EOF succeeded.")
    ELSE IF ~w.e.inner.some THEN Err("std::io::Error no inner")
    ELSE Ok

\* mutant: a write that succeeds passes, as in test_allow_half_open
DisallowAfterEof_okPasses(w) ==
    IF w.st = "ok" THEN Ok
    ELSE IF ~w.e.inner.some THEN Err("std::io::Error no inner")
    ELSE IF w.e.inner.display = "TypeError: This WritableStream has been closed."
         THEN Ok
    ELSE Err("Unexpected error: " \o w.e.inner.debug)

\* match socket.write(b"FOO").await of test_disallow_half_open
DisallowAfterEof(w) ==
    IF w.st = "ok" THEN Err("Write after EOF succeeded.")
    ELSE IF ~w.e.inner.some THEN Err("std::io::Error no inner")
    ELSE IF w.e.inner.display = "TypeError: This WritableStream has been closed."
         THEN Ok
    ELSE Err("Unexpected error: " \o w.e.inner.debug)

AfterEof(cfg, w) ==
    IF cfg.after_eof = "allow" THEN AllowAfterEof(w) ELSE DisallowAfterEof(w)

Pending(step, sock, io) ==
    [ready |-> FALSE, res |-> NoResult, step |-> step, socket |-> sock,
     net |-> io, foo |-> NotWritten]

Ready(r, sock, w) ==
    [ready |-> TRUE, res |-> r, step |-> "returned", socket |-> sock,
     net |-> Idle, foo |-> w]

\* socket.read_to_end(&mut buf) returned Ok: the peer's end-of-stream was read
ReadToEnd(sock) == [sock EXCEPT !.eof = TRUE]

\* mutant: an error of the request write is not returned, the probe goes on
\* to read
PollTest_writeErrorIgnored(p, c) ==
    LET cfg == tests[p].fut
        io == net[p]
        sock == socket[p]
    IN CASE fut[p] = "unpolled" ->
              IF c.ok
              THEN Pending("write", Connect(cfg), InFlight("write"))
              ELSE Ready(Err("connect failed: " \o c.error), sock, NotWritten)
         [] fut[p] = "write" ->
              IF io.st = "pending" THEN Pending("write", sock, io)
              ELSE Pending("read", sock, InFlight("read"))
         [] fut[p] = "read" ->
              IF io.st = "pending" THEN Pending("read", sock, io)
              ELSE IF io.st = "err"
              THEN Ready(Err("socket.read_to_end failed: " \o io.e.debug),
                         sock, NotWritten)
              ELSE IF cfg.after_eof = "none"
              THEN Ready(Ok, ReadToEnd(sock), NotWritten)
              ELSE Pending("foo", ReadToEnd(sock), InFlight("foo"))
         [] fut[p] = "foo" ->
              IF io.st = "pending" THEN Pending("foo", sock, io)
              ELSE Ready(AfterEof(cfg, io), sock, io)

\* One poll of the probe future p.  c is what connect() returns if this poll
\* reaches it.  The future runs until it returns or reaches an await whose
\* operation has not completed.
PollTest(p, c) ==
    LET cfg == tests[p].fut
        io == net[p]
        sock == socket[p]
    IN CASE fut[p] = "unpolled" ->
              IF c.ok
              THEN Pending("write", Connect(cfg), InFlight("write"))
              ELSE Ready(Err("connect failed: " \o c.error), sock, NotWritten)
         [] fut[p] = "write" ->
              IF io.st = "pending" THEN Pending("write", sock, io)
              ELSE IF io.st = "ok" THEN Pending("read", sock, InFlight("read"))
              ELSE Ready(Err("socket.write failed: " \o io.e.debug), sock,
                         NotWritten)
         [] fut[p] = "read" ->
              IF io.st = "pending" THEN Pending("read", sock, io)
              ELSE IF io.st = "err"
              THEN Ready(Err("socket.read_to_end failed: " \o io.e.debug),
                         sock, NotWritten)
              ELSE IF cfg.after_eof = "none"
              THEN Ready(Ok, ReadToEnd(sock), NotWritten)
              ELSE Pending("foo", ReadToEnd(sock), InFlight("foo"))
         [] fut[p] = "foo" ->
              IF io.st = "pending" THEN Pending("foo", sock, io)
              ELSE Ready(AfterEof(cfg, io), sock, io)

\* mutant: the future is ready without waiting for the timer
timeout_noWait(p) ==
    [ready |-> TRUE, timer |-> [state |-> "running", ms |-> TimeoutMs]]

\* mutant: the promise is made but setTimeout is not called
timeout_noTimer(p) == [ready |-> FALSE, timer |-> timer[p]]

\* One poll of timeout(5_000) for the race of probe p: the first poll makes
\* the promise and calls setTimeout, later polls look at the promise.
timeout(p) ==
    IF timer[p].state = "unset"
    THEN [ready |-> FALSE, timer |-> [state |-> "running", ms |-> TimeoutMs]]
    ELSE [ready |-> timer[p].state = "fired", timer |-> timer[p]]

\* The future as it stands when a poll of select! does not poll it
NotPolled(p) == Pending(fut[p], socket[p], net[p])

\* One poll of tokio::select! { res = fut => .., _ = timeout(5_000) => .. }
\* for probe p.  first is the branch the poll starts with ("fut" or
\* "timeout"); the branches are polled in turn and the first one found ready
\* runs, the other one is then not polled.
select(p, first, c) ==
    LET f == PollTest(p, c)
        t == timeout(p)
    IN IF first = "fut"
       THEN IF f.ready
            THEN [branch |-> "fut", f |-> f, timer |-> timer[p]]
            ELSE [branch |-> IF t.ready THEN "timeout" ELSE "pending",
                  f |-> f, timer |-> t.timer]
       ELSE IF t.ready
            THEN [branch |-> "timeout", f |-> NotPolled(p), timer |-> t.timer]
            ELSE [branch |-> IF f.ready THEN "fut" ELSE "pending",
                  f |-> f, timer |-> t.timer]

\* mutant: both failing arms format the same text
StatusLine_conflated(name, s) ==
    IF s.branch = "fut" /\ s.f.res.ok
    THEN "[SUCCESS] " \o name
    ELSE "[FAILED] " \o name \o ": Timed out!"

\* mutant: the timeout arm formats another text
StatusLine_timeoutText(name, s) ==
    IF s.branch = "fut"
    THEN IF s.f.res.ok
         THEN "[SUCCESS] " \o name
         ELSE "[FAILED] " \o name \o ": " \o s.f.res.error
    ELSE "[FAILED] " \o name \o ": timeout"

\* the String the select! expression evaluates to
StatusLine(name, s) ==
    IF s.branch = "fut"
    THEN IF s.f.res.ok
         THEN "[SUCCESS] " \o name
         ELSE "[FAILED] " \o name \o ": " \o s.f.res.error
    ELSE "[FAILED] " \o name \o ": Timed out!"

\* mutant: the timeout arm does not set failed
SetsFailed_errOnly(s) == s.branch = "fut" /\ ~s.f.res.ok

\* whether the arm that ran executes failed = true
SetsFailed(s) == ~(s.branch = "fut" /\ s.f.res.ok)

\* mutant: the Socket stays open when the probe future is dropped
Drop_leak(sock) == sock

\* Dropping the probe future drops the Socket it owns
Drop(sock) ==
    IF sock.state = "open" THEN [sock EXCEPT !.state = "dropped"] ELSE sock

\* Dropping the probe future leaves the operation it was awaiting with the
\* runtime: its result, already there or still to come, is never read
Abandon(io) ==
    IF io.st = "pending" THEN Abandoned
    ELSE IF io.st \in {"ok", "err"} THEN Lost
    ELSE Idle

\* Dropping the timeout future drops its promise; a timer that has not fired
\* yet stays set
Forget(t) == IF t.state = "fired" THEN NoTimer ELSE t

\* mutant: every line is followed by the separator
RECURSIVE join_trailing(_, _)
join_trailing(lines, sep) ==
    IF lines = <<>> THEN ""
    ELSE lines[1] \o sep \o join_trailing(Tail(lines), sep)

\* test_results.join("\n")
RECURSIVE join(_, _)
join(lines, sep) ==
    IF lines = <<>> THEN ""
    ELSE IF Len(lines) = 1 THEN lines[1]
    ELSE lines[1] \o sep \o join(Tail(lines), sep)

\* mutant: the status is not passed on
ResponseError_200(body, status) ==
    [ok |-> 200 \in 400..599, status |-> 200, body |-> body]

\* Response::error(body, status): an Err unless status is an error status;
\* Response::ok(body).  ok tells Ok(response) from Err
ResponseError(body, status) ==
    [ok |-> status \in 400..599, status |-> status, body |-> body]
ResponseOk(body) == [ok |-> TRUE, status |-> 200, body |-> body]
NoResponse == [ok |-> FALSE, status |-> 0, body |-> ""]

-----------------------------------------------------------------------------
(* main *)

\* mutant: the probes are started when tests is built
Init_eager ==
    /\ pc = "loop"
    /\ idx = 1
    /\ failed = FALSE
    /\ test_results = <<>>
    /\ console = <<>>
    /\ fut = [p \in Probes |-> "write"]
    /\ socket = [p \in Probes |-> Connect(tests[p].fut)]
    /\ net = [p \in Probes |-> InFlight("write")]
    /\ timer = [p \in Probes |-> NoTimer]
    /\ branch = [p \in Probes |-> "none"]
    /\ res = [p \in Probes |-> NoResult]
    /\ foo = [p \in Probes |-> NotWritten]
    /\ response = NoResponse

Init ==
    /\ pc = "loop"
    /\ idx = 1
    /\ failed = FALSE
    /\ test_results = <<>>
    /\ console = <<>>
    /\ fut = [p \in Probes |-> "unpolled"]
    /\ socket = [p \in Probes |-> NoSocket]
    /\ net = [p \in Probes |-> Idle]
    /\ timer = [p \in Probes |-> NoTimer]
    /\ branch = [p \in Probes |-> "none"]
    /\ res = [p \in Probes |-> NoResult]
    /\ foo = [p \in Probes |-> NotWritten]
    /\ response = NoResponse

\* mutant: the loop stops at the first failure
HasNext_untilFailure == idx <= Len(tests) /\ ~failed

\* for (name, fut) in tests: whether the iterator yields another probe
HasNext == idx <= Len(tests)

\* mutant: the line is put in front of the earlier ones
push_front(results, result) == <<result>> \o results

\* test_results.push(result)
push(results, result) == Append(results, result)

\* main runs from one poll of select! until select! is pending again or the
\* loop moves on to the next probe; log is the console before the poll
Race(p, first, c, log) ==
    LET s == select(p, first, c)
        name == tests[p].name
        line == StatusLine(name, s)
    IN /\ IF s.branch = "pending"
          THEN /\ pc' = "select"
               /\ timer' = [timer EXCEPT ![p] = s.timer]
               /\ net' = [net EXCEPT ![p] = s.f.net]
               /\ fut' = [fut EXCEPT ![p] = s.f.step]
               /\ socket' = [socket EXCEPT ![p] = s.f.socket]
               /\ console' = log
               /\ UNCHANGED <<idx, failed, test_results, branch, res, foo>>
          ELSE /\ pc' = "loop"
               /\ idx' = idx + 1
               /\ failed' = (failed \/ SetsFailed(s))
               /\ test_results' = push(test_results, line)
               /\ console' = Append(log, line)
               /\ fut' = [fut EXCEPT ![p] = "dropped"]
               /\ socket' = [socket EXCEPT ![p] = Drop(s.f.socket)]
               /\ net' = [net EXCEPT ![p] = Abandon(s.f.net)]
               /\ timer' = [timer EXCEPT ![p] = Forget(s.timer)]
               /\ branch' = [branch EXCEPT ![p] = s.branch]
               /\ res' = [res EXCEPT ![p] = s.f.res]
               /\ foo' = [foo EXCEPT ![p] = s.f.foo]
       /\ UNCHANGED response

ConnectResults == { Ok } \cup { Err(e) : e \in ConnectErrors }

\* for (name, fut) in tests: log the name and poll select! for the first time
RunTest(first, c) ==
    /\ pc = "loop"
    /\ HasNext
    /\ Race(idx, first, c, Append(console, "Running Test " \o tests[idx].name))

\* the task is woken by the probe's I/O or by its timer and polls select!
Poll(first) ==
    /\ pc = "select"
    /\ \/ net[idx].st \in {"ok", "err"}
       \/ timer[idx].state = "fired"
    /\ Race(idx, first, Ok, console)

\* after the loop: join the lines and answer
Respond ==
    /\ pc = "loop"
    /\ ~HasNext
    /\ pc' = "done"
    /\ response' = LET body == join(test_results, "\n")
                   IN IF failed THEN ResponseError(body, 500)
                      ELSE ResponseOk(body)
    /\ UNCHANGED <<idx, failed, test_results, console, fut, socket, net,
                   timer, branch, res, foo>>

-----------------------------------------------------------------------------
(* The environment *)

Completions(op) ==
    { IoOk(op) } \cup
    { IoErr(op, e) : e \in IF op = "foo" THEN AfterEofErrors ELSE ScriptErrors }

\* the runtime completes the operation probe p has in flight with r; when
\* the probe future was dropped before, nothing is left to take the result
IoComplete(p, r) ==
    /\ \/ net[p].st = "pending" /\ r \in Completions(net[p].op)
       \/ net[p].st = "abandoned"
    /\ net' = [net EXCEPT ![p] = IF net[p].st = "abandoned" THEN Lost ELSE r]
    /\ UNCHANGED <<pc, idx, failed, test_results, console, fut, socket,
                   timer, branch, res, foo, response>>

\* mutant: the races share one promise, so a timer that fires resolves the
\* deadline of the race in progress
TimerFires_shared(p) ==
    /\ timer[p].state = "running"
    /\ \A q \in 1..(p - 1) : timer[q].state # "running"
    /\ timer' = [q \in Probes |->
                   IF q = p
                   THEN IF fut[p] = "dropped" THEN NoTimer
                        ELSE [timer[p] EXCEPT !.state = "fired"]
                   ELSE IF pc = "select" /\ q = idx /\ timer[q].state = "running"
                        THEN [timer[q] EXCEPT !.state = "fired"]
                        ELSE timer[q]]
    /\ UNCHANGED <<pc, idx, failed, test_results, console, fut, socket,
                   net, branch, res, foo, response>>

\* the timer set by the race of probe p fires and resolves its promise;
\* when that race was settled before, nothing is left to see it.  All timers
\* have the same delay, so they fire in the order in which they were set.
TimerFires(p) ==
    /\ timer[p].state = "running"
    /\ \A q \in 1..(p - 1) : timer[q].state # "running"
    /\ timer' = [timer EXCEPT ![p] = IF fut[p] = "dropped" THEN NoTimer
                                     ELSE [@ EXCEPT !.state = "fired"]]
    /\ UNCHANGED <<pc, idx, failed, test_results, console, fut, socket,
                   net, branch, res, foo, response>>

Branches == {"fut", "timeout"}

AllCompletions == UNION { Completions(op) : op \in {"write", "read", "foo"} }

Next ==
    \/ \E first \in Branches, c \in ConnectResults : RunTest(first, c)
    \/ \E first \in Branches : Poll(first)
    \/ Respond
    \/ \E p \in Probes, r \in AllCompletions : IoComplete(p, r)
    \/ \E p \in Probes : TimerFires(p)

Spec == Init /\ [][Next]_vars

\* what main does, and what the timers do
Main ==
    \/ \E first \in Branches, c \in ConnectResults : RunTest(first, c)
    \/ \E first \in Branches : Poll(first)
    \/ Respond

Timers == \E p \in Probes : TimerFires(p)

\* The event loop runs the task whenever it can continue and fires the
\* timers that were set (the oldest first, so each of them in turn); nothing
\* makes the peer answer.
Fairness == WF_vars(Main) /\ WF_vars(Timers)

FairSpec == Spec /\ Fairness

-----------------------------------------------------------------------------
(* Properties *)

SuccessLine(name) == "[SUCCESS] " \o name
FailureLine(name, reason) == "[FAILED] " \o name \o ": " \o reason
TimedOutLine(name) == "[FAILED] " \o name \o ": Timed out!"

\* the line the outcome of probe p calls for
OutcomeLine(p) ==
    IF branch[p] = "timeout" THEN TimedOutLine(tests[p].name)
    ELSE IF res[p].ok THEN SuccessLine(tests[p].name)
    ELSE FailureLine(tests[p].name, res[p].error)

Raced(p) == branch[p] \in {"fut", "timeout"}

Names == <<"NO_SSL", "SSL", "StartTls", "ALLOW_HALF_OPEN", "DISALLOW_HALF_OPEN">>

\* C1: when main has returned, the report holds exactly one status line per
\* declared probe, and line i is the line of the i-th declared probe (NO_SSL,
\* SSL, StartTls, ALLOW_HALF_OPEN, DISALLOW_HALF_OPEN), whatever the outcomes;
\* while main runs, the lines so far are those of the probes raced so far.
C1_OneLinePerProbeInOrder ==
    /\ Len(test_results) = Cardinality({p \in Probes : Raced(p)})
    /\ \A i \in 1..Len(test_results) :
          /\ Raced(i)
          /\ tests[i].name = Names[i]
          /\ test_results[i] = OutcomeLine(i)
    /\ pc = "done" => Len(test_results) = Len(Names)

\* C1 witness: a finished run in which the probes ended in all three ways
C1_Witness ==
    /\ pc = "done"
    /\ branch[1] = "timeout"
    /\ branch[2] = "fut" /\ res[2].ok
    /\ branch[3] = "fut" /\ ~res[3].ok
    /\ branch[5] = "timeout"

\* C2: when the run has finished, failed is true if and only if at least one
\* probe timed out or returned Err; it is false exactly when all five probes
\* returned Ok before their deadline.
C2_FailedIffAnyFailure ==
    pc = "done" =>
        (failed <=> \E p \in Probes : branch[p] = "timeout" \/ ~res[p].ok)

\* C2 witness: a finished run whose only failure is one timeout
C2_Witness ==
    /\ pc = "done"
    /\ failed
    /\ branch[3] = "timeout"
    /\ \A p \in Probes \ {3} : branch[p] = "fut" /\ res[p].ok

Settles == idx' = idx + 1

CheckLine(p, r) ==
    IF r.ok THEN SuccessLine(tests[p].name)
    ELSE FailureLine(tests[p].name, r.error)

\* C3: in the race of a probe against its 5000 ms deadline, a race that is
\* settled while the probe's own timer has not fired is settled by the check:
\* the recorded line is the Success or Failure(reason) line of the check's
\* Result and never the TimedOut line; and whenever the check's branch ran,
\* the line is that of its Result.
C3_CheckBeforeDeadline ==
    [][Settles =>
         /\ timer[idx].state # "unset" => timer[idx].ms = 5000
         /\ timer[idx].state # "fired" => branch'[idx] = "fut"
         /\ branch'[idx] = "fut" =>
              /\ test_results'[idx] = CheckLine(idx, res'[idx])
              /\ test_results'[idx] # TimedOutLine(tests[idx].name)]_vars

\* C3 witness: a check that failed at its read while its timer was running
C3_Witness ==
    /\ branch[2] = "fut"
    /\ socket[2].state = "dropped"
    /\ ~res[2].ok
    /\ timer[2].state = "running"
    /\ test_results[2] = FailureLine("SSL",
                            "socket.read_to_end failed: Kind(ConnectionReset)")

\* C4: when the deadline is found ready while the check still waits for its
\* I/O, the race is settled as TimedOut: the line is "[FAILED] {name}: Timed
\* out!" and failed is true.  Once a probe future is dropped it takes no
\* further step, and neither the completion of the I/O it left behind nor
\* anything else changes its line; that completion changes no line and not
\* the failed flag.
C4_DeadlineFirst ==
    [][/\ (Settles /\ timer[idx].state = "fired" /\ net[idx].st = "pending")
            => branch'[idx] = "timeout"
       /\ (Settles /\ branch'[idx] = "timeout") =>
            /\ test_results'[idx] = TimedOutLine(tests[idx].name)
            /\ failed'
            /\ res'[idx] = NoResult
            /\ fut'[idx] = "dropped"
       /\ \A p \in Probes :
            fut[p] = "dropped" =>
              /\ fut'[p] = "dropped"
              /\ res'[p] = res[p]
              /\ branch'[p] = branch[p]
              /\ test_results'[p] = test_results[p]
              /\ net'[p] # net[p] =>
                   /\ test_results' = test_results
                   /\ failed' = failed]_vars

\* C4 witness: the I/O of a timed-out probe completed after the run had
\* moved on, and the probe's line is still the TimedOut line
C4_Witness ==
    /\ branch[1] = "timeout"
    /\ net[1].st = "lost"
    /\ idx > 2
    /\ test_results[1] = "[FAILED] NO_SSL: Timed out!"
    /\ failed

\* C5: provided every timer that was set eventually fires and the task is
\* run whenever it can continue, main eventually returns a response, also
\* when sockets hang forever at write or read.
C5_Terminates == <>(pc = "done")

\* C5 witness: main has returned although every probe left its I/O hanging
C5_Witness ==
    /\ pc = "done"
    /\ response.status = 500
    /\ \A p \in Probes : branch[p] = "timeout" /\ net[p].st = "abandoned"

\* C6: no probe is skipped: the probes raced are exactly those before the
\* loop position, the loop goes on to the next probe whatever happened
\* before, and main returns only after the last probe was raced.
C6_NoProbeSkipped ==
    /\ \A p \in Probes : Raced(p) <=> p < idx
    /\ \A p \in Probes : p < idx => fut[p] = "dropped"
    /\ (pc = "loop" /\ idx <= Len(Names)) =>
          ENABLED (\E first \in Branches, c \in ConnectResults :
                      RunTest(first, c))
    /\ pc = "done" => idx = Len(Names) + 1

\* C6 witness: the last probes ran and passed after a failure and a timeout
C6_Witness ==
    /\ pc = "done"
    /\ branch[1] = "fut" /\ ~res[1].ok
    /\ branch[2] = "timeout"
    /\ \A p \in 3..5 : branch[p] = "fut" /\ res[p].ok /\ socket[p].state = "dropped"

\* C7: the response has status 500 if failed is true and 200 otherwise, and
\* its body is the status lines of the five probes joined by newlines.
C7_Response ==
    pc = "done" =>
        /\ response.status = IF failed THEN 500 ELSE 200
        /\ response.body =
              OutcomeLine(1) \o "\n" \o OutcomeLine(2) \o "\n" \o
              OutcomeLine(3) \o "\n" \o OutcomeLine(4) \o "\n" \o
              OutcomeLine(5)

\* C7 witness: a response with status 500 whose body mixes both kinds of line
C7_Witness ==
    /\ pc = "done"
    /\ response.status = 500
    /\ branch[1] = "fut" /\ res[1].ok
    /\ branch[5] = "fut" /\ ~res[5].ok

ClosedMessage == "TypeError: This WritableStream has been closed."
LostMessage == "Error: Network connection lost."

\* the secondary write of probe p failed with an error whose message is msg
FooFailedWith(p, msg) ==
    /\ foo[p].st = "err"
    /\ foo[p].e.inner.some
    /\ foo[p].e.inner.display = msg

FooReturned(p) == branch[p] = "fut" /\ foo[p].st \in {"ok", "err"}

\* C8: DISALLOW_HALF_OPEN, once connect, write and read-to-end succeeded and
\* the secondary write returned, is Success if and only if that write failed
\* with the message "TypeError: This WritableStream has been closed."; after
\* any other message it is Failure.
C8_DisallowExactMessage ==
    FooReturned(5) =>
        /\ res[5].ok <=> FooFailedWith(5, ClosedMessage)
        /\ test_results[5] =
              IF FooFailedWith(5, ClosedMessage)
              THEN SuccessLine("DISALLOW_HALF_OPEN")
              ELSE FailureLine("DISALLOW_HALF_OPEN", res[5].error)

\* C8 witness: the secondary write failed with another message and the probe
\* failed
C8_Witness ==
    /\ FooReturned(5)
    /\ FooFailedWith(5, LostMessage)
    /\ ~res[5].ok

\* C9: DISALLOW_HALF_OPEN: when the secondary write after end-of-stream
\* succeeds, the probe fails with the reason "Write after EOF succeeded.".
C9_DisallowWriteSucceeds ==
    (FooReturned(5) /\ foo[5].st = "ok") =>
        /\ res[5] = Err("Write after EOF succeeded.")
        /\ test_results[5] =
              "[FAILED] DISALLOW_HALF_OPEN: Write after EOF succeeded."
        /\ failed

\* C9 witness: the secondary write of DISALLOW_HALF_OPEN succeeded
C9_Witness == FooReturned(5) /\ foo[5].st = "ok" /\ socket[5].state = "dropped"

\* C10: ALLOW_HALF_OPEN, once connect, write and read-to-end succeeded and
\* the secondary write returned, is Success if that write succeeded or failed
\* with the message "Error: Network connection lost."; after any other
\* message, in particular "TypeError: This WritableStream has been closed.",
\* it is Failure.
C10_AllowExactMessage ==
    FooReturned(4) =>
        /\ res[4].ok <=> (foo[4].st = "ok" \/ FooFailedWith(4, LostMessage))
        /\ FooFailedWith(4, ClosedMessage) =>
              test_results[4] =
                 FailureLine("ALLOW_HALF_OPEN",
                    "Unexpected error: JsError(\"" \o ClosedMessage \o "\")")
        /\ res[4].ok => test_results[4] = SuccessLine("ALLOW_HALF_OPEN")

\* C10 witness: the secondary write failed with the writer-closed message
C10_Witness ==
    /\ FooReturned(4)
    /\ FooFailedWith(4, ClosedMessage)
    /\ ~res[4].ok

\* the reason a probe gives when operation op has failed with description d
ScriptFailure(op, d) ==
    (IF op = "write" THEN "socket.write failed: "
     ELSE "socket.read_to_end failed: ") \o d

\* C11: in each of the five probes a failure of connect, of the request
\* write or of read-to-end ends the probe at once: a race settled by its
\* first poll is settled by a failed connect, with the reason "connect
\* failed: " and the error's description and without a socket; the poll that
\* finds the write or the read failed settles the race, and when the check's
\* branch ran the reason is "socket.write failed: " or "socket.read_to_end
\* failed: " and the error's description; in each case no later operation of
\* the script is handed to the runtime and the secondary write is not made.
C11_ScriptFailureIsFatal ==
    [][/\ (pc = "loop" /\ Settles) =>
            /\ branch'[idx] = "fut"
            /\ \E e \in ConnectErrors :
                  res'[idx] = Err("connect failed: " \o e)
            /\ socket'[idx].state = "none"
            /\ net'[idx] = Idle
            /\ foo'[idx] = NotWritten
       /\ (pc = "select" /\ fut[idx] \in {"write", "read"}
           /\ net[idx].st = "err" /\ fut'[idx] # fut[idx]) =>
            /\ Settles
            /\ net'[idx].st \in {"idle", "lost"}
            /\ foo'[idx] = NotWritten
            /\ ~socket'[idx].eof
            /\ branch'[idx] = "fut" =>
                  res'[idx] = Err(ScriptFailure(fut[idx], net[idx].e.debug))]_vars

\* C11 witness: one probe failed at connect, one at its write, one at its
\* read, the last one before its secondary write
C11_Witness ==
    /\ res[1] = Err("connect failed: RustError(\"connect: proxy request failed\")")
    /\ socket[1].state = "none"
    /\ res[3] = Err("socket.write failed: Kind(ConnectionReset)")
    /\ res[5] = Err("socket.read_to_end failed: Kind(ConnectionReset)")
    /\ foo[5] = NotWritten
    /\ \A p \in {1, 3, 5} : branch[p] = "fut" /\ net[p] = Idle

\* the line of probe p when its connect failed with e
ConnectFailedLine(p, e) ==
    "[FAILED] " \o Names[p] \o ": connect failed: " \o e

\* C12: unreachable peer: when main has returned and no probe got a socket,
\* every connect having failed, the response has status 500 and each of the
\* five lines is "[FAILED] {name}: connect failed: " with the error's
\* description; no probe is reported as timed out.
C12_UnreachablePeer ==
    (pc = "done" /\ \A p \in Probes : socket[p].state = "none") =>
        /\ response.status = 500
        /\ Len(test_results) = 5
        /\ \A p \in Probes :
              /\ branch[p] = "fut"
              /\ \E e \in ConnectErrors : test_results[p] = ConnectFailedLine(p, e)
              /\ test_results[p] # TimedOutLine(Names[p])

\* C12 witness: main has returned and every connect had failed
C12_Witness ==
    /\ pc = "done"
    /\ \A p \in Probes : socket[p].state = "none" /\ fut[p] = "dropped"
    /\ response.status = 500

\* every probe connected, wrote its request and read the peer's answer to
\* end-of-stream before its race was settled
PeerAnswered == \A p \in Probes : socket[p].eof

\* C13 as stated: given a reachable peer that answers and returns EOF after
\* the response, all five probes return Success and the status is 200.
C13_HealthyPeerAsStated ==
    (pc = "done" /\ PeerAnswered) =>
        /\ \A p \in Probes : branch[p] = "fut" /\ res[p].ok
        /\ response.status = 200

\* the secondary writes returned what a conforming runtime returns
RuntimeConforms ==
    /\ FooReturned(4)
    /\ foo[4].st = "ok" \/ FooFailedWith(4, LostMessage)
    /\ FooReturned(5)
    /\ FooFailedWith(5, ClosedMessage)

\* C13 amended: given a reachable peer whose answer every probe reads to
\* end-of-stream before its deadline is found ready, and secondary writes
\* that return in time, in ALLOW_HALF_OPEN with Ok or "Error: Network
\* connection lost." and in DISALLOW_HALF_OPEN with "TypeError: This
\* WritableStream has been closed.", all five probes return Success, the
\* status is 200 and the body is five lines each prefixed "[SUCCESS]".
C13_HealthyPeer ==
    (pc = "done" /\ PeerAnswered /\ RuntimeConforms) =>
        /\ \A p \in Probes : branch[p] = "fut" /\ res[p].ok
        /\ ~failed
        /\ response.ok
        /\ response.status = 200
        /\ response.body =
              "[SUCCESS] NO_SSL\n[SUCCESS] SSL\n[SUCCESS] StartTls\n" \o
              "[SUCCESS] ALLOW_HALF_OPEN\n[SUCCESS] DISALLOW_HALF_OPEN"

\* C13 witness: a run against a peer that answered, with the connection lost
\* at the secondary write of ALLOW_HALF_OPEN
C13_Witness ==
    /\ pc = "done"
    /\ PeerAnswered
    /\ RuntimeConforms
    /\ FooFailedWith(4, LostMessage)
    /\ response.status = 200

\* C14: main returns Ok(response) and never an Err: whatever the connects,
\* the I/O, the secondary writes and the timers did, every probe has an
\* outcome, and failure shows only as status 500.
C14_RunCannotFail ==
    pc = "done" =>
        /\ response.ok
        /\ \A p \in Probes : Raced(p)
        /\ response.status \in {200, 500}
        /\ response.status = 500 <=>
              \E p \in Probes : branch[p] = "timeout" \/ ~res[p].ok

\* C14 witness: main returned a response after a failed connect, a failed
\* write, a timeout and two unexpected secondary writes
C14_Witness ==
    /\ pc = "done"
    /\ response.ok
    /\ socket[1].state = "none"
    /\ res[2] = Err("socket.write failed: Kind(ConnectionReset)")
    /\ branch[3] = "timeout"
    /\ FooReturned(4) /\ FooFailedWith(4, ClosedMessage)
    /\ FooReturned(5) /\ foo[5].st = "ok"

\* C16: probes run one after another: only the probe at the loop position
\* can be suspended in its script, and only while main waits in select!; a
\* probe the loop has not reached has taken no step (no socket, no I/O, no
\* timer) and comes after all recorded lines; a probe the loop has passed
\* is dropped, holds no open socket and has no operation it awaits.
C16_Sequential ==
    /\ \A p \in Probes :
          fut[p] \notin {"unpolled", "dropped"} => (p = idx /\ pc = "select")
    /\ Cardinality({p \in Probes : fut[p] \notin {"unpolled", "dropped"}}) <= 1
    /\ \A p \in Probes :
          (p > idx \/ (p = idx /\ pc = "loop")) =>
              /\ fut[p] = "unpolled"
              /\ socket[p] = NoSocket
              /\ net[p] = Idle
              /\ timer[p] = NoTimer
    /\ \A p \in Probes : fut[p] # "unpolled" => Len(test_results) >= p - 1
    /\ \A p \in Probes :
          p < idx =>
              /\ fut[p] = "dropped"
              /\ socket[p].state # "open"
              /\ net[p].st \in {"idle", "abandoned", "lost"}

\* C16 witness: the third probe waits for its read after the second one
\* lost its race with I/O in flight; the fourth has not started
C16_Witness ==
    /\ pc = "select"
    /\ idx = 3
    /\ fut[3] = "read"
    /\ branch[2] = "timeout"
    /\ net[2].st = "abandoned"
    /\ fut[4] = "unpolled"

\* C17: when the timer of a settled race fires, nothing but that timer
\* changes: not the lines, not failed, not the loop position, not the timer
\* of the race in progress; and a race is settled as TimedOut only when the
\* timer set for that race has fired.
C17_StaleTimerIgnored ==
    [][/\ \A p \in Probes :
            (fut[p] = "dropped" /\ timer[p].state = "running"
             /\ timer'[p] # timer[p]) =>
                /\ UNCHANGED <<pc, idx, failed, test_results, branch, res, fut>>
                /\ \A j \in Probes \ {p} : timer'[j] = timer[j]
       /\ (Settles /\ branch'[idx] = "timeout") =>
            /\ timer[idx].state = "fired"
            /\ fut[idx] # "dropped"]_vars

\* C17 witness: the timer of the first race, which the check had won, is
\* gone while the second probe races against its own running timer
C17_Witness ==
    /\ pc = "select"
    /\ idx = 2
    /\ branch[1] = "fut"
    /\ res[1].ok
    /\ timer[1] = NoTimer
    /\ timer[2].state = "running"

\* C18: the line of a probe that timed out is "[FAILED] {name}: Timed out!",
\* the line of a probe whose check returned Err is a different line, and
\* after either of them failed is true.
C18_TimeoutDistinct ==
    \A p \in Probes :
        Raced(p) =>
            /\ branch[p] = "timeout" =>
                  test_results[p] = TimedOutLine(Names[p]) /\ failed
            /\ (branch[p] = "fut" /\ ~res[p].ok) =>
                  /\ test_results[p] # TimedOutLine(Names[p])
                  /\ res[p].error # "Timed out!"
                  /\ failed
            /\ (branch[p] = "fut" /\ res[p].ok) =>
                  test_results[p] # TimedOutLine(Names[p])

\* C18 witness: a timeout and a failure in one report
C18_Witness ==
    /\ branch[4] = "timeout"
    /\ branch[5] = "fut"
    /\ ~res[5].ok
    /\ foo[5].st = "err"
    /\ failed

\* C19: a probe's socket is open only while main waits in that probe's
\* select!; once the race is settled, by the check or by the deadline, the
\* socket is dropped, so no socket is open while a later probe runs or
\* after main has returned.
C19_NoSocketOutlivesRace ==
    /\ \A p \in Probes :
          socket[p].state = "open" => (pc = "select" /\ p = idx)
    /\ \A p \in Probes :
          (fut[p] = "dropped" /\ socket[p].state # "none") =>
              socket[p].state = "dropped"

\* C19 witness: main has returned; the socket of a probe that timed out and
\* the socket of a probe that passed are dropped
C19_Witness ==
    /\ pc = "done"
    /\ branch[1] = "timeout" /\ socket[1].state = "dropped"
    /\ net[1].st = "abandoned"
    /\ branch[2] = "fut" /\ res[2].ok /\ socket[2].state = "dropped"

\* the secondary write of probe p failed with an error without inner error
FooFailedNoInner(p) ==
    FooReturned(p) /\ foo[p].st = "err" /\ ~foo[p].e.inner.some

\* C20: in ALLOW_HALF_OPEN and DISALLOW_HALF_OPEN a secondary write that
\* fails with an error without inner error gives Failure with the reason
\* "std::io::Error no inner", never Success.
C20_NoInnerIsFailure ==
    \A p \in {4, 5} :
        FooFailedNoInner(p) =>
            /\ res[p] = Err("std::io::Error no inner")
            /\ test_results[p] =
                  "[FAILED] " \o Names[p] \o ": std::io::Error no inner"
            /\ failed

\* C20 witness: both half-open probes got an error without inner error
C20_Witness == FooFailedNoInner(4) /\ FooFailedNoInner(5)

====
